---- MODULE Spec2Model ----
(***************************************************************************)
(* Model of the playback engine of the DSA algorithm visualizer:           *)
(* class AnimationController of the animator module, driven by a page      *)
(* (API calls), by the host's requestAnimationFrame queue (frame ticks)    *)
(* and by the clock behind performance.now().                              *)
(*                                                                         *)
(* Numbers.  Speeds are kept in eighths (SpeedUnit = 8 is speed 1x), so    *)
(* 0.25x is 2 and 4x is 32.  Times are milliseconds.  The model keeps      *)
(* elapsed = performance.now() - lastFrameTime instead of the two          *)
(* timestamps, saturated at the longest effective duration: animate() only *)
(* ever compares that difference with stepDuration / speed.                *)
(***************************************************************************)
EXTENDS Integers, Sequences, FiniteSets, TLC

\* ---- bounds of the model ------------------------------------------------
MaxLen == 3          \* longest snapshot sequence a producer hands over
MaxPending == 2      \* cap on frame callbacks pending at once

\* ---- program constants --------------------------------------------------
stepDuration == 500  \* this.stepDuration, base duration in ms
SpeedUnit == 8       \* model unit: speed 1x (the constructor's this.speed = 1)
MinSpeed == 2        \* 0.25 of setSpeed, in eighths
MaxSpeed == 32       \* 4 of setSpeed, in eighths

Max(a, b) == IF a >= b THEN a ELSE b
Min(a, b) == IF a <= b THEN a ELSE b

\* JavaScript null (getCurrentState's "|| null")
null == <<>>

\* A snapshot is opaque to the engine: <<n, i>> identifies the i-th snapshot
\* of the producer run that recorded n of them.
MkSteps(n) == [i \in 1..n |-> <<n, i>>]
Sequences == {MkSteps(n) : n \in 0..MaxLen}

\* Arguments the page passes.
StepInputs == -1..MaxLen
SpeedInputs == {-8, 1, 2, 8, 32, 33}
\* Time that passes between two events, in ms.
FrameTimes == {stepDuration, 4 * stepDuration}
\* Longest effective duration: stepDuration / 0.25.
MaxDelta == (stepDuration * SpeedUnit) \div MinSpeed

VARIABLES
    isPlaying, isPaused, currentStep, totalSteps, speed, steps,
    animationFrameId,  \* "null", "pending" (the newest queued callback) or
                       \* "fired" (an id whose callback has already run)
    elapsed,           \* performance.now() - this.lastFrameTime, saturated
    rafQueue,          \* number of () => this.animate() callbacks queued
    fired,             \* notifications delivered by the latest handler
    completions,       \* onComplete calls seen since the latest play()
    last,              \* the latest handler, its argument, the state before
    quiet,             \* the page makes no further API call
    hanoi,             \* the page's TowerOfHanoi instance and its current run
    kmp,               \* the page's KMPMatcher instance
    nq,                \* the page's NQueens instance and its current run
    qs,                \* the page's QuickSort instance
    ca,                \* a CanvasAnimator and the host's frame queue for it
    asked              \* the argument of the latest size configuration call

producers == <<hanoi, kmp, nq, qs, ca, asked>>

engine == <<isPlaying, isPaused, currentStep, totalSteps, speed, steps,
            animationFrameId, elapsed, rafQueue, fired, completions, last, quiet>>

vars == <<isPlaying, isPaused, currentStep, totalSteps, speed, steps,
          animationFrameId, elapsed, rafQueue, fired, completions, last, quiet,
          hanoi, kmp, nq, qs, ca, asked>>

\* The engine and its host as one record, so that handlers compose.
Self ==
    [isPlaying |-> isPlaying, isPaused |-> isPaused,
     currentStep |-> currentStep, totalSteps |-> totalSteps,
     speed |-> speed, steps |-> steps,
     animationFrameId |-> animationFrameId, elapsed |-> elapsed,
     rafQueue |-> rafQueue, fired |-> <<>>, completions |-> completions]

Commit(m) ==
    /\ isPlaying' = m.isPlaying
    /\ isPaused' = m.isPaused
    /\ currentStep' = m.currentStep
    /\ totalSteps' = m.totalSteps
    /\ speed' = m.speed
    /\ steps' = m.steps
    /\ animationFrameId' = m.animationFrameId
    /\ elapsed' = m.elapsed
    /\ rafQueue' = m.rafQueue
    /\ fired' = m.fired
    /\ completions' = m.completions

\* ---- AnimationController ------------------------------------------------

getCurrentState(m) ==
    IF m.currentStep + 1 \in 1..Len(m.steps)
    THEN m.steps[m.currentStep + 1]
    ELSE null

\* stepDuration / speed as an exact fraction.
getEffectiveDuration(m) == [num |-> stepDuration * SpeedUnit, den |-> m.speed]

\* deltaTime >= this.getEffectiveDuration()
DurationReached(delta, d) == delta * d.den >= d.num

notifyStepChange(m) ==
    [m EXCEPT !.fired = Append(@,
        [ch |-> "step", state |-> getCurrentState(m),
         index |-> m.currentStep, total |-> m.totalSteps])]

\* progress = currentStep / (totalSteps - 1) * 100 as the fraction
\* <<numerator, denominator>>; a zero denominator is JavaScript's NaN or
\* Infinity.
Progress(m) ==
    IF m.totalSteps > 0
    THEN <<m.currentStep * 100, m.totalSteps - 1>>
    ELSE <<0, 1>>

notifyStateChange(m) ==
    [m EXCEPT !.fired = Append(@,
        [ch |-> "state", isPlaying |-> m.isPlaying, isPaused |-> m.isPaused,
         currentStep |-> m.currentStep, totalSteps |-> m.totalSteps,
         speed |-> m.speed, progress |-> Progress(m)])]

onComplete(m) ==
    [m EXCEPT !.fired = Append(@, [ch |-> "complete"]),
              !.completions = @ + 1]

\* Variant: a load that keeps the old position.
setSteps_keepsPosition(m, st) ==
    notifyStateChange([m EXCEPT !.steps = st, !.totalSteps = Len(st)])

setSteps(m, st) ==
    notifyStateChange(
        [m EXCEPT !.steps = st, !.totalSteps = Len(st), !.currentStep = 0])

\* Variant: the lower bound of the doc comment ("0.5 to 4") instead of 0.25.
setSpeed_minHalf(m, x) ==
    notifyStateChange([m EXCEPT !.speed = Max(2 * MinSpeed, Min(MaxSpeed, x))])

setSpeed(m, x) ==
    notifyStateChange([m EXCEPT !.speed = Max(MinSpeed, Min(MaxSpeed, x))])

reset(m) ==
    notifyStateChange(notifyStepChange([m EXCEPT !.currentStep = 0]))

\* cancelAnimationFrame(id): removes the callback if it is still queued.
cancelAnimationFrame(m) ==
    IF m.animationFrameId = "pending"
    THEN [m EXCEPT !.rafQueue = @ - 1]
    ELSE m

pause(m) ==
    LET m1 == [m EXCEPT !.isPlaying = FALSE, !.isPaused = TRUE]
        m2 == IF m1.animationFrameId # "null"
              THEN [cancelAnimationFrame(m1) EXCEPT !.animationFrameId = "null"]
              ELSE m1
    IN notifyStateChange(m2)

\* this.animationFrameId = requestAnimationFrame(() => this.animate())
requestAnimationFrame(m) ==
    [m EXCEPT !.rafQueue = @ + 1, !.animationFrameId = "pending"]
\* Variant: the loop waits stepDuration whatever the speed.
animate_ignoresSpeed(m) ==
    IF ~m.isPlaying THEN m
    ELSE IF DurationReached(m.elapsed,
                            [num |-> stepDuration * SpeedUnit, den |-> SpeedUnit])
         THEN LET m1 == [m EXCEPT !.elapsed = 0]
              IN IF m1.currentStep < m1.totalSteps - 1
                 THEN requestAnimationFrame(
                          notifyStepChange([m1 EXCEPT !.currentStep = @ + 1]))
                 ELSE onComplete(pause(m1))
         ELSE requestAnimationFrame(m)

\* Variant: the advance test is off by one (<= instead of <).
animate_overrun(m) ==
    IF ~m.isPlaying THEN m
    ELSE IF DurationReached(m.elapsed, getEffectiveDuration(m))
         THEN LET m1 == [m EXCEPT !.elapsed = 0]
              IN IF m1.currentStep <= m1.totalSteps - 1
                 THEN requestAnimationFrame(
                          notifyStepChange([m1 EXCEPT !.currentStep = @ + 1]))
                 ELSE onComplete(pause(m1))
         ELSE requestAnimationFrame(m)

\* Variant: the loop is rescheduled at the final index instead of stopped.
animate_neverStops(m) ==
    IF ~m.isPlaying THEN m
    ELSE IF DurationReached(m.elapsed, getEffectiveDuration(m))
         THEN LET m1 == [m EXCEPT !.elapsed = 0]
              IN IF m1.currentStep < m1.totalSteps - 1
                 THEN requestAnimationFrame(
                          notifyStepChange([m1 EXCEPT !.currentStep = @ + 1]))
                 ELSE requestAnimationFrame(m1)
         ELSE requestAnimationFrame(m)

\* Variant: the isPlaying guard at the top of animate() is missing.
animate_noGuard(m) ==
    IF DurationReached(m.elapsed, getEffectiveDuration(m))
    THEN LET m1 == [m EXCEPT !.elapsed = 0]
         IN IF m1.currentStep < m1.totalSteps - 1
            THEN requestAnimationFrame(
                     notifyStepChange([m1 EXCEPT !.currentStep = @ + 1]))
            ELSE onComplete(pause(m1))
    ELSE requestAnimationFrame(m)

\* Variant: completion is signalled without leaving Playing.
animate_completesWhilePlaying(m) ==
    IF ~m.isPlaying THEN m
    ELSE IF DurationReached(m.elapsed, getEffectiveDuration(m))
         THEN LET m1 == [m EXCEPT !.elapsed = 0]
              IN IF m1.currentStep < m1.totalSteps - 1
                 THEN requestAnimationFrame(
                          notifyStepChange([m1 EXCEPT !.currentStep = @ + 1]))
                 ELSE onComplete(m1)
         ELSE requestAnimationFrame(m)

animate(m) ==
    IF ~m.isPlaying THEN m
    ELSE IF DurationReached(m.elapsed, getEffectiveDuration(m))
         THEN LET m1 == [m EXCEPT !.elapsed = 0]
              IN IF m1.currentStep < m1.totalSteps - 1
                 THEN requestAnimationFrame(
                          notifyStepChange([m1 EXCEPT !.currentStep = @ + 1]))
                 ELSE onComplete(pause(m1))
         ELSE requestAnimationFrame(m)

\* Variant: play() without the restart from the final index.
play_noRestart(m) ==
    LET m1 == [m EXCEPT !.isPlaying = TRUE, !.isPaused = FALSE,
                        !.elapsed = 0, !.completions = 0]
    IN notifyStateChange(animate(m1))

play(m) ==
    LET m0 == IF m.currentStep >= m.totalSteps - 1 THEN reset(m) ELSE m
        m1 == [m0 EXCEPT !.isPlaying = TRUE, !.isPaused = FALSE,
                         !.elapsed = 0, !.completions = 0]
    IN notifyStateChange(animate(m1))

toggle(m) == IF m.isPlaying THEN pause(m) ELSE play(m)

stop(m) ==
    LET p == pause(m)
    IN notifyStateChange(notifyStepChange([p EXCEPT !.currentStep = 0]))

\* Variant: the upper clamp is the length instead of the final index.
goToStep_clampsToLength(m, step) ==
    notifyStateChange(notifyStepChange(
        [m EXCEPT !.currentStep = Max(0, Min(step, m.totalSteps))]))

goToStep(m, step) ==
    notifyStateChange(notifyStepChange(
        [m EXCEPT !.currentStep = Max(0, Min(step, m.totalSteps - 1))]))
\* Variant: a step forward consumes the snapshot it leaves.
stepForward_shifts(m) ==
    IF m.currentStep < m.totalSteps - 1
    THEN notifyStateChange(notifyStepChange(
             [m EXCEPT !.currentStep = @ + 1, !.steps = Tail(@)]))
    ELSE m

\* Variant: stepping past the final index wraps to the first one.
stepForward_wraps(m) ==
    IF m.currentStep < m.totalSteps - 1
    THEN notifyStateChange(notifyStepChange([m EXCEPT !.currentStep = @ + 1]))
    ELSE notifyStateChange(notifyStepChange([m EXCEPT !.currentStep = 0]))

stepForward(m) ==
    IF m.currentStep < m.totalSteps - 1
    THEN notifyStateChange(notifyStepChange([m EXCEPT !.currentStep = @ + 1]))
    ELSE m

\* Variant: a manual step backward pauses playback first.
stepBackward_pauses(m) ==
    LET p == pause(m)
    IN IF p.currentStep > 0
       THEN notifyStateChange(notifyStepChange([p EXCEPT !.currentStep = @ - 1]))
       ELSE p

stepBackward(m) ==
    IF m.currentStep > 0
    THEN notifyStateChange(notifyStepChange([m EXCEPT !.currentStep = @ - 1]))
    ELSE m

\* The host takes the oldest queued callback off the frame queue; the id the
\* controller holds names the newest one.
DequeueFrame(m) ==
    [m EXCEPT !.rafQueue = @ - 1,
              !.animationFrameId =
                  IF m.rafQueue = 1 /\ @ = "pending" THEN "fired" ELSE @]

\* ---- the state machine --------------------------------------------------

Before ==
    [currentStep |-> currentStep, totalSteps |-> totalSteps,
     isPlaying |-> isPlaying, isPaused |-> isPaused,
     animationFrameId |-> animationFrameId, rafQueue |-> rafQueue]

\* The handler runs once; r is the state it leaves.
Call(op, arg, m) ==
    /\ \E r \in {m} : Commit(r)
    /\ last' = [op |-> op, arg |-> arg, before |-> Before]
    /\ UNCHANGED quiet
    /\ UNCHANGED producers

\* No producer has been constructed.
NoProducer == [pc |-> "none"]

\* No size has been configured since construction.
NotAsked == [setNumDisks |-> <<>>, setSize |-> <<>>]

\* new AnimationController()
EngineInit ==
    /\ isPlaying = FALSE
    /\ isPaused = FALSE
    /\ currentStep = 0
    /\ totalSteps = 0
    /\ speed = SpeedUnit
    /\ steps = <<>>
    /\ animationFrameId = "null"
    /\ elapsed = 0
    /\ rafQueue = 0
    /\ fired = <<>>
    /\ completions = 0
    /\ last = [op |-> "new", arg |-> 0, before |->
                 [currentStep |-> 0, totalSteps |-> 0, isPlaying |-> FALSE,
                  isPaused |-> FALSE, animationFrameId |-> "null",
                  rafQueue |-> 0]]
    /\ quiet = FALSE

Init ==
    /\ EngineInit
    /\ hanoi = NoProducer
    /\ kmp = NoProducer
    /\ nq = NoProducer
    /\ qs = NoProducer
    /\ ca = NoProducer
    /\ asked = NotAsked

SetSteps ==
    /\ ~quiet
    /\ \E st \in Sequences : Call("setSteps", st, setSteps(Self, st))

SetSpeed ==
    /\ ~quiet
    /\ \E x \in SpeedInputs : Call("setSpeed", x, setSpeed(Self, x))

Play ==
    /\ ~quiet
    /\ rafQueue < MaxPending
    /\ Call("play", 0, play(Self))

Pause ==
    /\ ~quiet
    /\ Call("pause", 0, pause(Self))

Toggle ==
    /\ ~quiet
    /\ isPlaying \/ rafQueue < MaxPending
    /\ Call("toggle", 0, toggle(Self))

Stop ==
    /\ ~quiet
    /\ Call("stop", 0, stop(Self))

Reset ==
    /\ ~quiet
    /\ Call("reset", 0, reset(Self))

GoToStep ==
    /\ ~quiet
    /\ \E i \in StepInputs : Call("goToStep", i, goToStep(Self, i))

StepForward ==
    /\ ~quiet
    /\ Call("stepForward", 0, stepForward(Self))

StepBackward ==
    /\ ~quiet
    /\ Call("stepBackward", 0, stepBackward(Self))

\* A frame: the host runs the oldest queued () => this.animate().
Tick ==
    /\ rafQueue > 0
    /\ Call("tick", 0, animate(DequeueFrame(Self)))

\* The clock behind performance.now() moves on.
AdvanceTime ==
    /\ \E d \in FrameTimes : elapsed' = Min(MaxDelta, elapsed + d)
    /\ UNCHANGED <<isPlaying, isPaused, currentStep, totalSteps, speed, steps,
                   animationFrameId, rafQueue, fired, completions, last, quiet>>
    /\ UNCHANGED producers

\* The page stops calling the engine; frames and the clock go on.
Quiesce ==
    /\ ~quiet
    /\ quiet' = TRUE
    /\ UNCHANGED <<isPlaying, isPaused, currentStep, totalSteps, speed, steps,
                   animationFrameId, elapsed, rafQueue, fired, completions, last>>
    /\ UNCHANGED producers

Next ==
    \/ SetSteps
    \/ SetSpeed
    \/ Play
    \/ Pause
    \/ Toggle
    \/ Stop
    \/ Reset
    \/ GoToStep
    \/ StepForward
    \/ StepBackward
    \/ Tick
    \/ AdvanceTime
    \/ Quiesce

Spec == Init /\ [][Next]_vars

\* Frames keep firing and time keeps advancing.
LiveSpec == Spec /\ WF_vars(Tick) /\ WF_vars(AdvanceTime)

\* ---- TowerOfHanoi -------------------------------------------------------

MinDisks == 1        \* Math.max(1, ...) of setNumDisks
MaxDisks == 8        \* Math.min(8, n) of setNumDisks
TargetPeg == 2       \* the target argument of recordMoves(numDisks, 0, 2, 1)
PageDisks == 4       \* the page's new TowerOfHanoi(4)

\* Arguments the page passes to setNumDisks.
DiskInputs == (MinDisks - 2)..(MaxDisks + 2)

RECURSIVE Pow2(_)
\* Math.pow(2, n)
Pow2(n) == IF n = 0 THEN 1 ELSE 2 * Pow2(n - 1)

\* Array.from({ length: n }, (_, i) => n - i), [], []; peg p is pegs[p + 1],
\* bottom disk first.
InitialPegs(n) == <<[i \in 1..n |-> n - i + 1], <<>>, <<>>>>

getMinMoves(h) == Pow2(h.numDisks) - 1

RECURSIVE recordMoves(_, _, _, _)
recordMoves(n, source, target, auxiliary) ==
    IF n = 0 THEN <<>>
    ELSE recordMoves(n - 1, source, auxiliary, target)
         \o <<[disk |-> n, from |-> source, to |-> target]>>
         \o recordMoves(n - 1, auxiliary, target, source)

\* The description template "Move disk d from Peg f+1 to Peg t+1".
MoveDescription(move) ==
    <<"Move disk", move.disk, "from Peg", move.from + 1, "to Peg", move.to + 1>>

\* TowerOfHanoi.reset() on the instance with numDisks = n.
HanoiReset(n) ==
    [pc |-> "idle", numDisks |-> n, pegs |-> InitialPegs(n), moves |-> <<>>,
     gPegs |-> <<>>, gMoves |-> <<>>, index |-> 0, states |-> <<>>]

\* Array.prototype.pop() on an empty array yields undefined, kept as 0 (no
\* disk has that number).
Undefined == 0

\* const disk = pegs[from].pop(); pegs[to].push(disk)
PopPush(pegs, from, to) ==
    LET src == pegs[from + 1]
        disk == IF Len(src) = 0 THEN Undefined ELSE src[Len(src)]
    IN [pegs EXCEPT ![from + 1] = SubSeq(src, 1, Len(src) - 1),
                    ![to + 1] = Append(@, disk)]

RECURSIVE ApplyPrevious(_, _, _)
\* The loop of simulateMove over this.moves from index i (1-based here): a
\* move that already carries a pegsState is skipped, so the loop goes on at
\* the next move without one.
ApplyPrevious(pegs, moves, i) ==
    LET rest == {j \in i..Len(moves) : moves[j].pegsState = null}
    IN IF rest = {} THEN pegs
       ELSE LET j == CHOOSE x \in rest : \A y \in rest : x <= y
            IN ApplyPrevious(PopPush(pegs, moves[j].from, moves[j].to),
                             moves, j + 1)

simulateMove(moves, numDisks, from, to) ==
    PopPush(ApplyPrevious(InitialPegs(numDisks), moves, 1), from, to)

RECURSIVE hanoiRec(_, _, _, _, _, _)
\* this.hanoi(n, source, target, auxiliary) on this.moves = moves; the value
\* is this.moves afterwards.  m1 is this.moves after the first recursive
\* call (bound once), the push follows, then the second recursive call.
hanoiRec(moves, numDisks, n, source, target, auxiliary) ==
    IF n = 0 THEN moves
    ELSE CHOOSE r \in
           {hanoiRec(m2, numDisks, n - 1, auxiliary, target, source) :
              m2 \in
                {Append(m1,
                    [disk |-> n, from |-> source, to |-> target,
                     pegsState |-> simulateMove(m1, numDisks, source, target)]) :
                   m1 \in {hanoiRec(moves, numDisks, n - 1,
                                    source, auxiliary, target)}}} : TRUE

\* solve(): reset(), then the recursion from peg 0 to peg 2.
solve(h) ==
    [h EXCEPT !.pegs = InitialPegs(h.numDisks),
              !.moves = hanoiRec(<<>>, h.numDisks, h.numDisks, 0, TargetPeg, 1)]

\* Variant: the lower bound is 0 disks.
setNumDisks_allowsZero(h, n) == HanoiReset(Max(0, Min(MaxDisks, n)))

\* this.numDisks = Math.max(1, Math.min(8, n)); this.reset()
setNumDisks(h, n) == HanoiReset(Max(MinDisks, Min(MaxDisks, n)))

\* generateStates() up to the forEach: the initial snapshot and the moves.
HanoiBegin(h) ==
    [h EXCEPT
        !.pc = "forEach",
        !.gPegs = InitialPegs(h.numDisks),
        !.states = <<[pegs |-> InitialPegs(h.numDisks), move |-> null,
                      moveNumber |-> 0, movingDisk |-> 0, fromPeg |-> -1,
                      toPeg |-> -1,
                      description |-> <<"Initial state: All disks on the first peg">>]>>,
        !.gMoves = recordMoves(h.numDisks, 0, TargetPeg, 1),
        !.index = 0]

\* Variant: the snapshot is numbered with the loop index instead of index + 1.
HanoiForEachBody_indexFromZero(h) ==
    LET move == h.gMoves[h.index + 1]
        src == h.gPegs[move.from + 1]
        disk == src[Len(src)]
        pegs == [h.gPegs EXCEPT ![move.from + 1] = SubSeq(src, 1, Len(src) - 1),
                                ![move.to + 1] = Append(@, disk)]
    IN [h EXCEPT
           !.gPegs = pegs,
           !.states = Append(@,
               [pegs |-> pegs, move |-> move, moveNumber |-> h.index,
                movingDisk |-> move.disk, fromPeg |-> move.from,
                toPeg |-> move.to, description |-> MoveDescription(move)]),
           !.index = @ + 1,
           !.pc = IF h.index + 1 = Len(h.gMoves) THEN "done" ELSE "forEach"]

\* Variant: the disk is taken from the bottom of the source peg.
HanoiForEachBody_takesBottom(h) ==
    LET move == h.gMoves[h.index + 1]
        src == h.gPegs[move.from + 1]
        disk == src[1]
        pegs == [h.gPegs EXCEPT ![move.from + 1] = Tail(src),
                                ![move.to + 1] = Append(@, disk)]
    IN [h EXCEPT
           !.gPegs = pegs,
           !.states = Append(@,
               [pegs |-> pegs, move |-> move, moveNumber |-> h.index + 1,
                movingDisk |-> move.disk, fromPeg |-> move.from,
                toPeg |-> move.to, description |-> MoveDescription(move)]),
           !.index = @ + 1,
           !.pc = IF h.index + 1 = Len(h.gMoves) THEN "done" ELSE "forEach"]

\* One pass of moves.forEach((move, index) => ...); after the last one
\* generateStates() returns states.
HanoiForEachBody(h) ==
    LET move == h.gMoves[h.index + 1]
        src == h.gPegs[move.from + 1]
        disk == src[Len(src)]
        pegs == [h.gPegs EXCEPT ![move.from + 1] = SubSeq(src, 1, Len(src) - 1),
                                ![move.to + 1] = Append(@, disk)]
    IN [h EXCEPT
           !.gPegs = pegs,
           !.states = Append(@,
               [pegs |-> pegs, move |-> move, moveNumber |-> h.index + 1,
                movingDisk |-> move.disk, fromPeg |-> move.from,
                toPeg |-> move.to, description |-> MoveDescription(move)]),
           !.index = @ + 1,
           !.pc = IF h.index + 1 = Len(h.gMoves) THEN "done" ELSE "forEach"]

\* new TowerOfHanoi(4)
HanoiInit ==
    /\ EngineInit
    /\ hanoi = HanoiReset(PageDisks)
    /\ kmp = NoProducer
    /\ nq = NoProducer
    /\ qs = NoProducer
    /\ ca = NoProducer
    /\ asked = NotAsked

HanoiSetNumDisks ==
    /\ hanoi.pc \in {"idle", "done"}
    /\ \E n \in DiskInputs :
           /\ hanoi' = setNumDisks(hanoi, n)
           /\ asked' = [asked EXCEPT !.setNumDisks = <<n>>]
    /\ UNCHANGED <<engine, kmp, nq, qs, ca>>

HanoiGenerateStates ==
    /\ hanoi.pc \in {"idle", "done"}
    /\ hanoi' = HanoiBegin(hanoi)
    /\ UNCHANGED <<engine, kmp, nq, qs, ca, asked>>

HanoiForEach ==
    /\ hanoi.pc = "forEach"
    /\ \E h \in {HanoiForEachBody(hanoi)} : hanoi' = h
    /\ UNCHANGED <<engine, kmp, nq, qs, ca, asked>>

HanoiSolve ==
    /\ hanoi.pc \in {"idle", "done"}
    /\ hanoi.moves = <<>>
    /\ \E h \in {solve(hanoi)} : hanoi' = h
    /\ UNCHANGED <<engine, kmp, nq, qs, ca, asked>>

HanoiNext ==
    \/ HanoiSetNumDisks
    \/ HanoiGenerateStates
    \/ HanoiForEach
    \/ HanoiSolve

HanoiSpec == HanoiInit /\ [][HanoiNext]_vars

\* ---- KMPMatcher ---------------------------------------------------------

MaxText == 4         \* longest text the model enumerates
MaxPattern == 3      \* longest pattern the model enumerates

Alphabet == {"A", "B"}

\* Strings are sequences of characters; index k of JavaScript is k + 1 here.
StringsUpTo(n) == UNION {[1..k -> Alphabet] : k \in 0..n}

\* The end-to-end scenario: "ABABDABACDABABCABAB" and "ABABCABAB".
ExampleText ==
    <<"A", "B", "A", "B", "D", "A", "B", "A", "C", "D",
      "A", "B", "A", "B", "C", "A", "B", "A", "B">>
ExamplePattern == <<"A", "B", "A", "B", "C", "A", "B", "A", "B">>

Texts == StringsUpTo(MaxText) \cup {ExampleText}
Patterns == StringsUpTo(MaxPattern) \cup {ExamplePattern}

RECURSIVE LPSLoop(_, _, _, _)
\* The while loop of buildLPS.
LPSLoop(pattern, lps, len, i) ==
    IF i < Len(pattern)
    THEN IF pattern[i + 1] = pattern[len + 1]
         THEN LPSLoop(pattern, Append(lps, len + 1), len + 1, i + 1)
         ELSE IF len # 0
              THEN LPSLoop(pattern, lps, lps[len], i)
              ELSE LPSLoop(pattern, Append(lps, 0), len, i + 1)
    ELSE lps

buildLPS(pattern) == LPSLoop(pattern, <<0>>, 0, 1)

\* One recorded snapshot of search(); kind names the push that made it.
KmpState(kind, i, j, lps, matches, comparing) ==
    [kind |-> kind, textIndex |-> i, patternIndex |-> j, lps |-> lps,
     matches |-> matches, comparing |-> comparing]

RECURSIVE SearchLoop(_, _, _, _, _, _, _)
\* The while (i < n) loop of search() and the final push.
SearchLoop(text, pattern, lps, i, j, matches, states) ==
    IF i < Len(text)
    THEN LET st1 == Append(states,
                        KmpState("compare", i, j, lps, matches, <<i, j>>))
         IN IF text[i + 1] = pattern[j + 1]
            THEN IF j + 1 = Len(pattern)
                 THEN LET found == Append(matches, (i + 1) - (j + 1))
                      IN SearchLoop(text, pattern, lps, i + 1, lps[j + 1],
                             found,
                             Append(st1, KmpState("match", i + 1, j + 1, lps,
                                                  found, <<>>)))
                 ELSE SearchLoop(text, pattern, lps, i + 1, j + 1, matches, st1)
            ELSE IF j # 0
                 THEN SearchLoop(text, pattern, lps, i, lps[j], matches,
                          Append(st1, KmpState("jump", i, j, lps, matches, <<>>)))
                 ELSE SearchLoop(text, pattern, lps, i + 1, j, matches,
                          Append(st1, KmpState("advance", i, j, lps, matches,
                                               <<>>)))
    ELSE [matches |-> matches,
          states |-> Append(states,
                        KmpState("complete", Len(text), 0, lps, matches, <<>>))]

\* search() proper: this.reset(), the early return, the LPS snapshot and the
\* loop.
searchBody(k) ==
    IF Len(k.pattern) = 0 \/ Len(k.text) = 0
    THEN [k EXCEPT !.pc = "searched", !.states = <<>>, !.result = <<>>]
    ELSE LET lps == buildLPS(k.pattern)
             run == SearchLoop(k.text, k.pattern, lps, 0, 0, <<>>,
                        <<KmpState("lps", 0, 0, lps, <<>>, <<>>)>>)
         IN [k EXCEPT !.pc = "searched", !.states = run.states,
                      !.result = run.matches]

\* search() with its record: when it repeats a finished search on the same
\* input, before is the record of that search and returned is the array that
\* search left in this.states, which reset() has replaced.
search(k) ==
    LET r == searchBody(k)
    IN [r EXCEPT
           !.before = IF k.pc = "searched" THEN k.run ELSE <<>>,
           !.returned = IF k.pc = "searched" THEN k.states ELSE <<>>,
           !.run = <<[text |-> k.text, pattern |-> k.pattern,
                      states |-> r.states]>>]

\* new KMPMatcher()
KmpNew ==
    [pc |-> "idle", text |-> <<>>, pattern |-> <<>>, states |-> <<>>,
     result |-> <<>>, run |-> <<>>, before |-> <<>>, returned |-> <<>>]

KmpInit ==
    /\ EngineInit
    /\ kmp = KmpNew
    /\ hanoi = NoProducer
    /\ nq = NoProducer
    /\ qs = NoProducer
    /\ ca = NoProducer
    /\ asked = NotAsked

KmpSetText ==
    /\ kmp.pc # "none"
    /\ \E t \in Texts :
           kmp' = [kmp EXCEPT !.text = t, !.states = <<>>, !.pc = "idle",
                              !.result = <<>>, !.run = <<>>, !.before = <<>>,
                              !.returned = <<>>]
    /\ UNCHANGED <<engine, hanoi, nq, qs, ca, asked>>

KmpSetPattern ==
    /\ kmp.pc # "none"
    /\ \E q \in Patterns :
           kmp' = [kmp EXCEPT !.pattern = q, !.states = <<>>, !.pc = "idle",
                              !.result = <<>>, !.run = <<>>, !.before = <<>>,
                              !.returned = <<>>]
    /\ UNCHANGED <<engine, hanoi, nq, qs, ca, asked>>

KmpSearch ==
    /\ kmp.pc # "none"
    /\ \E k \in {search(kmp)} : kmp' = k
    /\ UNCHANGED <<engine, hanoi, nq, qs, ca, asked>>

KmpNext ==
    \/ KmpSetText
    \/ KmpSetPattern
    \/ KmpSearch

KmpSpec == KmpInit /\ [][KmpNext]_vars

\* ---- NQueens ------------------------------------------------------------

MinQueens == 4       \* Math.max(4, ...) of setSize
MaxBoard == 12       \* Math.min(12, n) of setSize
PageQueens == 6      \* the page's new NQueens(6)
MaxQueens == 6       \* largest board on which a findFirst run is followed
MaxQueensAll == 4    \* largest board on which an exhaustive run is followed

\* Arguments the page passes to setSize.
SizeInputs == (MinQueens - 2)..(MaxBoard + 2)

Abs(x) == IF x < 0 THEN -x ELSE x

\* A grid is kept as the set of its cells <<row, col>> that hold 1; a queens
\* list is a sequence of <<row, col>>.  The local board[row] is board[row + 1].
RECURSIVE QueensBelow(_, _, _)
\* for (let r = 0; r < row; r++) if (board[r] >= 0) queens.push({row: r, ...})
QueensBelow(board, r, row) ==
    IF r >= row THEN <<>>
    ELSE (IF board[r + 1] >= 0 THEN <<<<r, board[r + 1]>>>> ELSE <<>>)
         \o QueensBelow(board, r + 1, row)

GridBelow(board, row) ==
    {<<r, board[r + 1]>> : r \in {q \in 0..(row - 1) : board[q + 1] >= 0}}

\* The conflict loop of lines 178-186.
IsSafe(board, row, col) ==
    \A r \in 0..(row - 1) :
        ~(board[r + 1] = col \/ Abs(r - row) = Abs(board[r + 1] - col))

NqSnapshot(kind, grid, queens, row, col, safe, found) ==
    [kind |-> kind, board |-> grid, queens |-> queens, currentRow |-> row,
     currentCol |-> col, safe |-> safe, solutionsFound |-> found,
     isSolution |-> (kind = "solution"), isBacktrack |-> (kind = "backtrack")]

\* NQueens.reset() on the instance of size n: this.board is n rows of n
\* zeros; board is the local array of generateStates.
NqReset(n) ==
    [pc |-> "idle", n |-> n, findFirst |-> TRUE, board |-> <<>>,
     thisBoard |-> [r \in 1..n |-> [c \in 1..n |-> 0]],
     states |-> <<>>, solutionsFound |-> 0, stack |-> <<>>, ret |-> "none"]

\* this.n = Math.max(4, Math.min(12, n)); this.reset()
setSize(q, n) == NqReset(Max(MinQueens, Min(MaxBoard, n)))

\* generateStates(findFirst) up to the call solve(0).
NqBegin(q, findFirst) ==
    [q EXCEPT
        !.pc = "solve",
        !.findFirst = findFirst,
        !.board = [r \in 1..q.n |-> -1],
        !.states = <<NqSnapshot("start", {}, <<>>, 0, -1, TRUE, 0)>>,
        !.solutionsFound = 0,
        !.stack = <<[row |-> 0, col |-> 0, phase |-> "loop", chk |-> 0]>>,
        !.ret = "none"]

Top(q) == q.stack[Len(q.stack)]
Pop(q) == SubSeq(q.stack, 1, Len(q.stack) - 1)
SetTop(q, f) == [q.stack EXCEPT ![Len(q.stack)] = f]

\* return value from solve(row): the frame is left; solve(0) returning ends
\* generateStates().
NqReturn(q, value) ==
    [q EXCEPT !.stack = Pop(q),
              !.ret = IF value THEN "true" ELSE "false",
              !.pc = IF Len(q.stack) = 1 THEN "done" ELSE "solve"]

\* if (row >= this.n): the solution snapshot, return findFirst.
NqSolutionBody(q) ==
    LET found == q.solutionsFound + 1
        snap == NqSnapshot("solution", GridBelow(q.board, q.n),
                           QueensBelow(q.board, 0, q.n), -1, -1, TRUE, found)
    IN NqReturn([q EXCEPT !.solutionsFound = found,
                          !.states = Append(@, snap)],
                q.findFirst)

\* One pass of the for loop up to the push of the checking snapshot; the
\* snapshot holds the locals boardGrid and queens themselves.
NqCheckBody(q) ==
    LET f == Top(q)
        snap == NqSnapshot("check", GridBelow(q.board, f.row),
                           QueensBelow(q.board, 0, f.row), f.row, f.col,
                           IsSafe(q.board, f.row, f.col), q.solutionsFound)
    IN [q EXCEPT !.states = Append(@, snap),
                 !.stack = SetTop(q, [f EXCEPT !.phase = "checked",
                                               !.chk = Len(q.states) + 1])]

\* if (safe) { ... solve(row + 1) }: boardGrid and queens, the objects the
\* checking snapshot holds, are written, copies go into the placing
\* snapshot, and solve(row + 1) is entered.  Otherwise the next column.
NqPlaceBody(q) ==
    LET f == Top(q)
    IN IF q.states[f.chk].safe
       THEN LET grid == q.states[f.chk].board \cup {<<f.row, f.col>>}
                queens == Append(q.states[f.chk].queens, <<f.row, f.col>>)
                st1 == [q.states EXCEPT ![f.chk].board = grid,
                                        ![f.chk].queens = queens]
                snap == NqSnapshot("place", grid, queens, f.row, f.col, TRUE,
                                   q.solutionsFound)
            IN [q EXCEPT
                   !.board = [@ EXCEPT ![f.row + 1] = f.col],
                   !.states = Append(st1, snap),
                   !.stack = Append(SetTop(q, [f EXCEPT !.phase = "called"]),
                                    [row |-> f.row + 1, col |-> 0,
                                     phase |-> "loop", chk |-> 0])]
       ELSE [q EXCEPT !.stack = SetTop(q, [f EXCEPT !.phase = "loop",
                                                    !.col = @ + 1])]

\* Variant: the result of solve(row + 1) is ignored, as in solveRecursive.
NqResumeBody_ignoresResult(q) ==
    LET f == Top(q)
        board == [q.board EXCEPT ![f.row + 1] = -1]
        old == q.states[f.chk].queens
        queens == SubSeq(old, 1, Len(old) - 1)
        st1 == [q.states EXCEPT ![f.chk].queens = queens]
        snap == NqSnapshot("backtrack", GridBelow(board, f.row),
                           SelectSeq(queens, LAMBDA c : c[1] < f.row),
                           f.row, f.col, TRUE, q.solutionsFound)
    IN [q EXCEPT
           !.board = board,
           !.states = Append(st1, snap),
           !.stack = SetTop(q, [f EXCEPT !.phase = "loop", !.col = @ + 1]),
           !.ret = "none"]

\* if (solve(row + 1)) return true; otherwise the backtrack: board[row] = -1,
\* queens.pop() on the list the checking snapshot holds, the backtrack
\* snapshot from fresh objects, and the next column.
NqResumeBody(q) ==
    IF q.ret = "true"
    THEN NqReturn(q, TRUE)
    ELSE LET f == Top(q)
             board == [q.board EXCEPT ![f.row + 1] = -1]
             old == q.states[f.chk].queens
             queens == SubSeq(old, 1, Len(old) - 1)
             st1 == [q.states EXCEPT ![f.chk].queens = queens]
             snap == NqSnapshot("backtrack", GridBelow(board, f.row),
                                SelectSeq(queens, LAMBDA c : c[1] < f.row),
                                f.row, f.col, TRUE, q.solutionsFound)
         IN [q EXCEPT
                !.board = board,
                !.states = Append(st1, snap),
                !.stack = SetTop(q, [f EXCEPT !.phase = "loop", !.col = @ + 1]),
                !.ret = "none"]

\* new NQueens(6)
NqInit ==
    /\ EngineInit
    /\ nq = NqReset(PageQueens)
    /\ hanoi = NoProducer
    /\ kmp = NoProducer
    /\ qs = NoProducer
    /\ ca = NoProducer
    /\ asked = NotAsked

NqSetSize ==
    /\ nq.pc \in {"idle", "done"}
    /\ \E n \in SizeInputs :
           /\ nq' = setSize(nq, n)
           /\ asked' = [asked EXCEPT !.setSize = <<n>>]
    /\ UNCHANGED <<engine, hanoi, kmp, qs, ca>>

NqGenerateStates ==
    /\ nq.pc \in {"idle", "done"}
    /\ \E findFirst \in BOOLEAN :
           /\ nq.n <= (IF findFirst THEN MaxQueens ELSE MaxQueensAll)
           /\ nq' = NqBegin(NqReset(nq.n), findFirst)
    /\ UNCHANGED <<engine, hanoi, kmp, qs, ca, asked>>

NqSolution ==
    /\ nq.pc = "solve"
    /\ Top(nq).phase = "loop"
    /\ Top(nq).row >= nq.n
    /\ \E q \in {NqSolutionBody(nq)} : nq' = q
    /\ UNCHANGED <<engine, hanoi, kmp, qs, ca, asked>>

NqCheck ==
    /\ nq.pc = "solve"
    /\ Top(nq).phase = "loop"
    /\ Top(nq).row < nq.n
    /\ Top(nq).col < nq.n
    /\ \E q \in {NqCheckBody(nq)} : nq' = q
    /\ UNCHANGED <<engine, hanoi, kmp, qs, ca, asked>>

NqPlace ==
    /\ nq.pc = "solve"
    /\ Top(nq).phase = "checked"
    /\ \E q \in {NqPlaceBody(nq)} : nq' = q
    /\ UNCHANGED <<engine, hanoi, kmp, qs, ca, asked>>

\* The for loop is exhausted: return false.
NqLoopEnd ==
    /\ nq.pc = "solve"
    /\ Top(nq).phase = "loop"
    /\ Top(nq).row < nq.n
    /\ Top(nq).col >= nq.n
    /\ \E q \in {NqReturn(nq, FALSE)} : nq' = q
    /\ UNCHANGED <<engine, hanoi, kmp, qs, ca, asked>>

NqResume ==
    /\ nq.pc = "solve"
    /\ Top(nq).phase = "called"
    /\ \E q \in {NqResumeBody(nq)} : nq' = q
    /\ UNCHANGED <<engine, hanoi, kmp, qs, ca, asked>>

NqNext ==
    \/ NqSetSize
    \/ NqGenerateStates
    \/ NqSolution
    \/ NqCheck
    \/ NqPlace
    \/ NqLoopEnd
    \/ NqResume

NqSpec == NqInit /\ [][NqNext]_vars

\* ---- QuickSort -----------------------------------------------------------

MaxArr == 3          \* longest array the model enumerates
Values == 1..3       \* the numbers an array holds (duplicates included)

RECURSIVE ArraysUpTo(_)
ArraysUpTo(n) ==
    IF n = 0 THEN {<<>>}
    ELSE LET shorter == ArraysUpTo(n - 1)
         IN shorter \cup {Append(a, v) : a \in shorter, v \in Values}

Arrays == ArraysUpTo(MaxArr)
Strategies == {"first", "last", "median", "random"}

\* [arr[a], arr[b]] = [arr[b], arr[a]]; index i of the code is arr[i + 1].
Swap(arr, a, b) == [arr EXCEPT ![a + 1] = arr[b + 1], ![b + 1] = arr[a + 1]]

RECURSIVE InsertSorted(_, _)
InsertSorted(sorted, x) ==
    IF sorted = <<>> THEN <<x>>
    ELSE IF x < Head(sorted) THEN <<x>> \o sorted
         ELSE <<Head(sorted)>> \o InsertSorted(Tail(sorted), x)

RECURSIVE SortAscending(_)
\* [...this.array].sort((a, b) => a - b)
SortAscending(arr) ==
    IF arr = <<>> THEN <<>>
    ELSE InsertSorted(SortAscending(Tail(arr)), Head(arr))

getSortedIndices(q, arr, low, high) ==
    LET sortedArr == SortAscending(q.array)
    IN SelectSeq([k \in 1..Len(arr) |-> k - 1],
                 LAMBDA i : i <= high /\ arr[i + 1] = sortedArr[i + 1])

\* A snapshot; a field the code leaves out or sets to null is <<>>, a number
\* x is <<x>>.
QsSnapshot(kind, arr, pivot, comparing, sorted, partitioning, i, j, q) ==
    [kind |-> kind, array |-> arr, pivot |-> pivot, comparing |-> comparing,
     sorted |-> sorted, partitioning |-> partitioning, i |-> i, j |-> j,
     comparisons |-> q.comparisons, swaps |-> q.swaps]

QsPush(q, snap) == [q EXCEPT !.states = Append(@, snap)]

\* Variant: reset() keeps the snapshots recorded so far.
QsReset_keepsStates(q) ==
    [q EXCEPT !.comparisons = 0, !.swaps = 0]

\* reset(): this.states is a new array, the counters are zero.
QsReset(q) ==
    [q EXCEPT !.states = <<>>, !.comparisons = 0, !.swaps = 0]

medianOfThree(arr, low, high) ==
    LET mid == (low + high) \div 2
        a1 == IF arr[low + 1] > arr[mid + 1] THEN Swap(arr, low, mid) ELSE arr
        a2 == IF a1[low + 1] > a1[high + 1] THEN Swap(a1, low, high) ELSE a1
        a3 == IF a2[mid + 1] > a2[high + 1] THEN Swap(a2, mid, high) ELSE a2
    IN [arr |-> a3, pivotIndex |-> mid]

\* The pivot selection of partition(): the array and the pivot index it may
\* leave; Math.random() makes every index of low..high possible.
PivotChoices(arr, low, high, pivotStrategy) ==
    IF pivotStrategy = "first" THEN {[arr |-> arr, pivotIndex |-> low]}
    ELSE IF pivotStrategy = "random"
         THEN {[arr |-> arr, pivotIndex |-> r] : r \in low..high}
         ELSE IF pivotStrategy = "median"
              THEN {medianOfThree(arr, low, high)}
              ELSE {[arr |-> arr, pivotIndex |-> high]}

RECURSIVE PartitionLoop(_, _, _, _, _, _)
\* for (let j = low; j < high; j++) with the locals i and j; q.arr is the
\* array being sorted.  The value is q and i after the loop.
PartitionLoop(q, i, j, high, pivot, range) ==
    IF j >= high THEN [q |-> q, i |-> i]
    ELSE LET q1 == [q EXCEPT !.comparisons = @ + 1]
             q2 == QsPush(q1, QsSnapshot("compare", q1.arr, <<high>>,
                              <<j, high>>, <<>>, range, <<i>>, <<j>>, q1))
         IN IF q2.arr[j + 1] < pivot
            THEN IF i + 1 # j
                 THEN LET q3 == [q2 EXCEPT !.arr = Swap(@, i + 1, j),
                                           !.swaps = @ + 1]
                          q4 == QsPush(q3, QsSnapshot("swap", q3.arr, <<high>>,
                                           <<i + 1, j>>, <<>>, range, <<>>,
                                           <<>>, q3))
                      IN PartitionLoop(q4, i + 1, j + 1, high, pivot, range)
                 ELSE PartitionLoop(q2, i + 1, j + 1, high, pivot, range)
            ELSE PartitionLoop(q2, i, j + 1, high, pivot, range)

\* Variant: the pivot stays where the loop left it.
partition_pivotNotPlaced(q, low, high, choice) ==
    LET a0 == IF choice.pivotIndex # high
              THEN Swap(choice.arr, choice.pivotIndex, high)
              ELSE choice.arr
        pivot == a0[high + 1]
        range == [k \in 1..(high - low + 1) |-> low + k - 1]
        q1 == QsPush([q EXCEPT !.arr = a0],
                     QsSnapshot("partition", a0, <<high>>, <<>>, <<>>, range,
                                <<>>, <<>>, q))
        after == PartitionLoop(q1, low - 1, low, high, pivot, range)
        pivotPos == after.i + 1
        q2 == after.q
        q3 == QsPush(q2, QsSnapshot("placed", q2.arr, <<pivotPos>>, <<>>,
                         getSortedIndices(q2, q2.arr, low, pivotPos), <<>>,
                         <<>>, <<>>, q2))
    IN [q |-> q3, pivotPos |-> pivotPos]

\* partition(arr, low, high, pivotStrategy) after the pivot selection made
\* choice; the value is q afterwards and the returned pivotPos.
partition(q, low, high, choice) ==
    LET a0 == IF choice.pivotIndex # high
              THEN Swap(choice.arr, choice.pivotIndex, high)
              ELSE choice.arr
        pivot == a0[high + 1]
        range == [k \in 1..(high - low + 1) |-> low + k - 1]
        q1 == QsPush([q EXCEPT !.arr = a0],
                     QsSnapshot("partition", a0, <<high>>, <<>>, <<>>, range,
                                <<>>, <<>>, q))
        after == PartitionLoop(q1, low - 1, low, high, pivot, range)
        pivotPos == after.i + 1
        q2 == IF pivotPos # high
              THEN [after.q EXCEPT !.arr = Swap(@, pivotPos, high),
                                   !.swaps = @ + 1]
              ELSE after.q
        q3 == QsPush(q2, QsSnapshot("placed", q2.arr, <<pivotPos>>, <<>>,
                         getSortedIndices(q2, q2.arr, low, pivotPos), <<>>,
                         <<>>, <<>>, q2))
    IN [q |-> q3, pivotPos |-> pivotPos]

\* A finished run is followed up when the next one repeats it: same array,
\* same strategy, no Math.random().
Repeats(q, pivotStrategy) ==
    /\ q.pc = "done"
    /\ q.run # <<>>
    /\ pivotStrategy # "random"
    /\ q.run[1].strategy = pivotStrategy
    /\ q.run[1].array = q.array

\* generateStates(pivotStrategy) up to the call of quickSort.  before is the
\* record of the run this one repeats; returned is the array that run handed
\* out, which reset() has just replaced as this.states.
QsBegin(q, pivotStrategy) ==
    LET q0 == QsReset(q)
        q1 == [q0 EXCEPT !.pc = "sorting",
                         !.strategy = pivotStrategy,
                         !.arr = q.array,
                         !.before = IF Repeats(q, pivotStrategy)
                                    THEN q.run ELSE <<>>,
                         !.returned = IF Repeats(q, pivotStrategy)
                                      THEN q.states ELSE <<>>,
                         !.run = <<>>,
                         !.stack = <<<<0, Len(q.array) - 1>>>>]
    IN QsPush(q1, QsSnapshot("start", q1.arr, <<>>, <<>>, <<>>, <<>>, <<>>,
                             <<>>, q1))

\* The push after quickSort() has returned, and the return of this.states.
QsEnd(q) ==
    LET q1 == QsPush(q, QsSnapshot("sorted", q.arr, <<>>, <<>>,
                        [k \in 1..Len(q.arr) |-> k - 1], <<>>, <<>>, <<>>, q))
    IN [q1 EXCEPT !.pc = "done",
                  !.run = <<[array |-> q.array, strategy |-> q.strategy,
                             states |-> q1.states]>>]

\* new QuickSort()
QsNew ==
    [pc |-> "idle", array |-> <<>>, given |-> <<>>, states |-> <<>>,
     comparisons |-> 0, swaps |-> 0, strategy |-> "last", arr |-> <<>>,
     stack |-> <<>>, returned |-> <<>>, run |-> <<>>, before |-> <<>>]

\* setArray(arr)
setArray(q, arr) ==
    LET q0 == QsReset(q)
    IN [q0 EXCEPT !.pc = "idle", !.array = arr, !.given = arr,
                  !.run = <<>>, !.before = <<>>, !.returned = <<>>]

QsInit ==
    /\ EngineInit
    /\ qs = QsNew
    /\ hanoi = NoProducer
    /\ kmp = NoProducer
    /\ nq = NoProducer
    /\ ca = NoProducer
    /\ asked = NotAsked

QsSetArray ==
    /\ qs.pc \in {"idle", "done"}
    /\ \E arr \in Arrays : \E q \in {setArray(qs, arr)} : qs' = q
    /\ UNCHANGED <<engine, hanoi, kmp, nq, ca, asked>>

QsGenerateStates ==
    /\ qs.pc \in {"idle", "done"}
    /\ \E pivotStrategy \in Strategies :
           \E q \in {QsBegin(qs, pivotStrategy)} : qs' = q
    /\ UNCHANGED <<engine, hanoi, kmp, nq, ca, asked>>

\* One call quickSort(arr, low, high, pivotStrategy) up to its recursive
\* calls, which are left on the stack in the order they run.
QsQuickSort ==
    /\ qs.pc = "sorting"
    /\ qs.stack # <<>>
    /\ LET low == Head(qs.stack)[1]
           high == Head(qs.stack)[2]
           rest == Tail(qs.stack)
       IN IF low < high
          THEN \E choice \in PivotChoices(qs.arr, low, high, qs.strategy) :
                 \E p \in {partition(qs, low, high, choice)} :
                    qs' = [p.q EXCEPT !.stack = <<<<low, p.pivotPos - 1>>,
                                                  <<p.pivotPos + 1, high>>>>
                                                \o rest]
          ELSE IF low = high
               THEN qs' = [QsPush(qs, QsSnapshot("inPlace", qs.arr, <<>>, <<>>,
                                      getSortedIndices(qs, qs.arr, low, high),
                                      <<>>, <<>>, <<>>, qs))
                             EXCEPT !.stack = rest]
               ELSE qs' = [qs EXCEPT !.stack = rest]
    /\ UNCHANGED <<engine, hanoi, kmp, nq, ca, asked>>

QsReturn ==
    /\ qs.pc = "sorting"
    /\ qs.stack = <<>>
    /\ \E q \in {QsEnd(qs)} : qs' = q
    /\ UNCHANGED <<engine, hanoi, kmp, nq, ca, asked>>

QsNext ==
    \/ QsSetArray
    \/ QsGenerateStates
    \/ QsQuickSort
    \/ QsReturn

QsSpec == QsInit /\ [][QsNext]_vars

\* ---- CanvasAnimator ------------------------------------------------------

AnimIds == {"a", "b"}    \* ids the page gives its animations

\* this.animations: id |-> <<>> when the Map has no such key, else
\* <<[loop, due]>>; due says that performance.now() - startTime has reached
\* the animation's duration, i.e. progress >= 1 at the next render.
NoAnimations == [id \in AnimIds |-> <<>>]

Size(animations) == Cardinality({id \in AnimIds : animations[id] # <<>>})

\* new CanvasAnimator(canvas); rafQueue counts the queued () => this.render()
\* callbacks, animationFrameId is "null", "pending" (the newest queued one)
\* or "fired" (an id whose callback has run).  op and wasRunning record the
\* latest call and isRunning before it.
CaNew ==
    [pc |-> "ready", animations |-> NoAnimations, isRunning |-> FALSE,
     animationFrameId |-> "null", rafQueue |-> 0,
     op |-> "new", wasRunning |-> FALSE]

CaStop(c) ==
    LET c1 == [c EXCEPT !.isRunning = FALSE]
    IN IF c1.animationFrameId # "null"
       THEN [c1 EXCEPT !.rafQueue = IF c1.animationFrameId = "pending"
                                    THEN @ - 1 ELSE @,
                       !.animationFrameId = "null"]
       ELSE c1

removeAnimation(c, id) ==
    LET c1 == [c EXCEPT !.animations[id] = <<>>]
    IN IF Size(c1.animations) = 0 THEN CaStop(c1) ELSE c1

clearAnimations(c) == CaStop([c EXCEPT !.animations = NoAnimations])

RECURSIVE RemoveAll(_, _)
\* completedAnimations.forEach(id => this.removeAnimation(id))
RemoveAll(c, ids) ==
    IF ids = {} THEN c
    ELSE LET id == CHOOSE x \in ids : TRUE
         IN RemoveAll(removeAnimation(c, id), ids \ {id})

\* render(): animations that are due complete; the ones that do not loop are
\* removed, the looping ones start over.  The frame request at the end is
\* made whatever removeAnimation did.
render(c) ==
    IF ~c.isRunning THEN c
    ELSE LET dueIds == {id \in AnimIds :
                          c.animations[id] # <<>> /\ c.animations[id][1].due}
             completed == {id \in dueIds : ~c.animations[id][1].loop}
             c1 == [c EXCEPT !.animations =
                       [id \in AnimIds |->
                           IF id \in dueIds \ completed
                           THEN <<[loop |-> TRUE, due |-> FALSE]>>
                           ELSE c.animations[id]]]
             c2 == RemoveAll(c1, completed)
         IN [c2 EXCEPT !.rafQueue = @ + 1, !.animationFrameId = "pending"]

CaStart(c) == render([c EXCEPT !.isRunning = TRUE])

addAnimation(c, id, loop) ==
    LET c1 == [c EXCEPT !.animations[id] = <<[loop |-> loop, due |-> FALSE]>>]
    IN IF ~c1.isRunning THEN CaStart(c1) ELSE c1

\* The host takes the oldest queued render callback off the frame queue.
CaDequeue(c) ==
    [c EXCEPT !.rafQueue = @ - 1,
              !.animationFrameId =
                  IF c.rafQueue = 1 /\ @ = "pending" THEN "fired" ELSE @]

CaCall(op, c) ==
    /\ \E r \in {c} : ca' = [r EXCEPT !.op = op, !.wasRunning = ca.isRunning]
    /\ UNCHANGED <<engine, hanoi, kmp, nq, qs, asked>>

CaInit ==
    /\ EngineInit
    /\ ca = CaNew
    /\ hanoi = NoProducer
    /\ kmp = NoProducer
    /\ nq = NoProducer
    /\ qs = NoProducer
    /\ asked = NotAsked

CaAddAnimation ==
    /\ ca.isRunning \/ ca.rafQueue < MaxPending
    /\ \E id \in AnimIds, loop \in BOOLEAN :
           CaCall("addAnimation", addAnimation(ca, id, loop))

CaRemoveAnimation ==
    \E id \in AnimIds : CaCall("removeAnimation", removeAnimation(ca, id))

CaClearAnimations == CaCall("clearAnimations", clearAnimations(ca))

\* A frame: the host runs the oldest queued () => this.render().
CaTick ==
    /\ ca.rafQueue > 0
    /\ CaCall("tick", render(CaDequeue(ca)))

\* The clock reaches the end of an animation's duration.
CaTimePasses ==
    /\ \E id \in AnimIds :
           /\ ca.animations[id] # <<>>
           /\ ~ca.animations[id][1].due
           /\ ca' = [ca EXCEPT !.animations[id][1].due = TRUE]
    /\ UNCHANGED <<engine, hanoi, kmp, nq, qs, asked>>

CaNext ==
    \/ CaAddAnimation
    \/ CaRemoveAnimation
    \/ CaClearAnimations
    \/ CaTick
    \/ CaTimePasses

CaSpec == CaInit /\ [][CaNext]_vars

\* ---- size configuration of the producers ---------------------------------

\* new TowerOfHanoi(4) and new NQueens(6), before any run.
ConfigInit ==
    /\ EngineInit
    /\ hanoi = HanoiReset(PageDisks)
    /\ nq = NqReset(PageQueens)
    /\ kmp = NoProducer
    /\ qs = NoProducer
    /\ ca = NoProducer
    /\ asked = NotAsked

ConfigNext ==
    \/ HanoiSetNumDisks
    \/ NqSetSize

ConfigSpec == ConfigInit /\ [][ConfigNext]_vars

\* ---- a producer run again on its page -----------------------------------

\* The page is the KMP page or the Quick Sort page.
RerunInit == KmpInit \/ QsInit

RerunNext ==
    \/ KmpSetText
    \/ KmpSetPattern
    \/ KmpSearch
    \/ QsSetArray
    \/ QsGenerateStates
    \/ QsQuickSort
    \/ QsReturn

RerunSpec == RerunInit /\ [][RerunNext]_vars

\* ---- properties ---------------------------------------------------------

\* C1: once a non-empty sequence of length N is loaded, currentStep is an
\* integer in [0, N-1] in every reachable state.
C1_PositionInRange ==
    totalSteps >= 1 => currentStep \in 0..(totalSteps - 1)

\* goToStep beyond the end of a loaded sequence, and a frame that finds the
\* position already at the final index.
C1_Witness ==
    /\ totalSteps >= 2
    /\ currentStep = totalSteps - 1
    /\ \/ last.op = "goToStep" /\ last.arg > totalSteps - 1
       \/ last.op = "tick" /\ last.before.currentStep = totalSteps - 1

\* C2: after setSteps(sequence) in any state the engine is not Playing and no
\* advancing-loop callback is pending.
C2_LoadCancelsPlayback ==
    last.op = "setSteps" => (~isPlaying /\ rafQueue = 0)

\* C3: immediately after setSteps(sequence) currentStep is 0, totalSteps is
\* sequence.length and getCurrentState() is the sequence's first element, or
\* null if it is empty.
C3_LoadResetsPosition ==
    last.op = "setSteps" =>
        /\ steps = last.arg
        /\ currentStep = 0
        /\ totalSteps = Len(last.arg)
        /\ getCurrentState(Self) =
               (IF Len(last.arg) = 0 THEN null ELSE last.arg[1])

\* A load while Playing away from position 0.
C3_Witness ==
    /\ last.op = "setSteps"
    /\ last.before.currentStep > 0
    /\ last.before.isPlaying
    /\ Len(last.arg) >= 2
    /\ currentStep = 0

\* C4: play() at the final index N-1 of a loaded sequence leaves the position
\* at 0 and the engine Playing as the call returns; play() below N-1 leaves
\* the position unchanged.
C4_PlayRestarts ==
    (last.op = "play" /\ totalSteps >= 1) =>
        /\ isPlaying
        /\ (last.before.currentStep >= totalSteps - 1 => currentStep = 0)
        /\ (last.before.currentStep < totalSteps - 1 =>
                currentStep = last.before.currentStep)

\* play() at the final index of a sequence of at least two snapshots.
C4_Witness ==
    /\ last.op = "play"
    /\ totalSteps >= 2
    /\ last.before.currentStep = totalSteps - 1
    /\ currentStep = 0
    /\ isPlaying

Completed ==
    /\ currentStep = totalSteps - 1
    /\ ~isPlaying
    /\ rafQueue = 0
    /\ completions >= 1

\* C5: with a sequence of length N >= 1 Playing and no further API call,
\* frames firing and time advancing, eventually the position is N-1, the
\* engine is not Playing, no frame callback is pending and onComplete has
\* been fired.
C5_PlaybackTerminates ==
    (quiet /\ isPlaying /\ totalSteps >= 1) ~> Completed

\* A frame completed a run through a sequence of at least two snapshots
\* after the page went quiet.
C5_Witness ==
    /\ quiet
    /\ totalSteps >= 2
    /\ last.op = "tick"
    /\ last.before.isPlaying
    /\ Completed

\* C6: after pause() the engine is not Playing and the position is the one
\* before the call; while the engine is not Playing no frame tick changes the
\* position, and only play() or toggle() makes it Playing again.
C6_PauseHoldsPosition ==
    /\ [](last.op = "pause" =>
            (~isPlaying /\ currentStep = last.before.currentStep))
    /\ [][(~isPlaying /\ last'.op = "tick") => currentStep' = currentStep]_vars
    /\ [][(~isPlaying /\ isPlaying') => last'.op \in {"play", "toggle"}]_vars

\* A frame callback that was still queued ran after a pause() in mid-sequence.
C6_Witness ==
    /\ last.op = "tick"
    /\ ~last.before.isPlaying
    /\ last.before.isPaused
    /\ elapsed = MaxDelta
    /\ totalSteps >= 2
    /\ currentStep < totalSteps - 1

\* C7: stepForward() at N-1 and stepBackward() at 0 leave the position
\* unchanged and fire no notification; elsewhere they move it by exactly 1.
C7_SteppingDoesNotWrap ==
    /\ (last.op = "stepForward" /\ totalSteps >= 1) =>
          IF last.before.currentStep = totalSteps - 1
          THEN currentStep = last.before.currentStep /\ fired = <<>>
          ELSE currentStep = last.before.currentStep + 1
    /\ (last.op = "stepBackward" /\ totalSteps >= 1) =>
          IF last.before.currentStep = 0
          THEN currentStep = last.before.currentStep /\ fired = <<>>
          ELSE currentStep = last.before.currentStep - 1

\* stepForward() at the final index of a sequence of at least two snapshots.
C7_Witness ==
    /\ last.op = "stepForward"
    /\ totalSteps >= 2
    /\ last.before.currentStep = totalSteps - 1
    /\ currentStep = totalSteps - 1
    /\ fired = <<>>

\* C8: stepForward(), stepBackward(), goToStep(i), reset() and setSpeed(x)
\* leave isPlaying and the pending frame callbacks as they were.
C8_PositionOpsKeepPlayState ==
    last.op \in {"stepForward", "stepBackward", "goToStep", "reset", "setSpeed"} =>
        /\ isPlaying = last.before.isPlaying
        /\ isPaused = last.before.isPaused
        /\ rafQueue = last.before.rafQueue
        /\ animationFrameId = last.before.animationFrameId

\* A manual step backward that moved the position while Playing.
C8_Witness ==
    /\ last.op = "stepBackward"
    /\ last.before.isPlaying
    /\ isPlaying
    /\ rafQueue >= 1
    /\ currentStep = last.before.currentStep - 1

\* C9: on a sequence of length N >= 1, goToStep(i) sets the position to 0
\* when i < 0, to N-1 when i >= N and to i otherwise.
C9_GoToStepClamps ==
    (last.op = "goToStep" /\ totalSteps >= 1) =>
        currentStep = (IF last.arg < 0 THEN 0
                       ELSE IF last.arg >= totalSteps THEN totalSteps - 1
                       ELSE last.arg)

\* goToStep(N) on a sequence of length N >= 2 from a position below N-1.
C9_Witness ==
    /\ last.op = "goToStep"
    /\ totalSteps >= 2
    /\ last.arg = totalSteps
    /\ last.before.currentStep < totalSteps - 1
    /\ currentStep = totalSteps - 1

Fired(ch) == {i \in 1..Len(fired) : fired[i].ch = ch}

\* C11: whenever an operation changes the position, onStepChange is invoked
\* within that operation with the snapshot at the new position, the new index
\* and the total count.
C11_PositionChangeAnnounced ==
    (last.op # "new" /\ currentStep # last.before.currentStep) =>
        \E i \in Fired("step") :
            /\ fired[i].index = currentStep
            /\ fired[i].total = totalSteps
            /\ fired[i].state = getCurrentState(Self)

\* C12: every operation that changes the position or isPlaying invokes
\* onStateChange with the current isPlaying, currentStep, totalSteps and speed.
C12_StatusBroadcast ==
    (last.op # "new" /\ (currentStep # last.before.currentStep
                          \/ isPlaying # last.before.isPlaying)) =>
        \E i \in Fired("state") :
            /\ fired[i].isPlaying = isPlaying
            /\ fired[i].currentStep = currentStep
            /\ fired[i].totalSteps = totalSteps
            /\ fired[i].speed = speed

\* C13: with an empty sequence, play(), toggle(), stepForward(),
\* stepBackward(), goToStep(i) and reset() on an idle engine leave the
\* position at 0, the engine not Playing, no frame callback scheduled and no
\* completion notification fired.
C13_EmptySequenceNoOps ==
    (/\ last.op \in {"play", "toggle", "stepForward", "stepBackward",
                     "goToStep", "reset"}
     /\ last.before.totalSteps = 0
     /\ ~last.before.isPlaying
     /\ last.before.rafQueue = 0) =>
        /\ currentStep = 0
        /\ ~isPlaying
        /\ rafQueue = 0
        /\ Fired("complete") = {}

\* C19: the engine never writes to the sequence it was given, and once
\* stepForward() no longer moves on a sequence of length N >= 1,
\* getCurrentState() is the last element of that sequence.
C19_ReplayReachesLastSnapshot ==
    /\ [](last.op = "setSteps" => steps = last.arg)
    /\ [][last'.op # "setSteps" => steps' = steps]_vars
    /\ []((last.op = "stepForward" /\ fired = <<>> /\ totalSteps >= 1) =>
            getCurrentState(Self) = steps[Len(steps)])

\* A stepForward() that no longer moves, at the end of the longest sequence.
C19_Witness ==
    /\ last.op = "stepForward"
    /\ fired = <<>>
    /\ totalSteps = MaxLen
    /\ steps = MkSteps(MaxLen)
    /\ getCurrentState(Self) = <<MaxLen, MaxLen>>

\* C20: while Playing below N-1, a frame tick advances the position by
\* exactly 1 and restarts the elapsed time if and only if the time elapsed
\* since the last advance is at least stepDuration / speed at the speed in
\* force at that tick; otherwise it changes neither.  setSpeed leaves the
\* queued callbacks alone.
C20_AdvanceFollowsSpeed ==
    /\ [][(Tick /\ isPlaying /\ currentStep < totalSteps - 1) =>
            IF DurationReached(elapsed, getEffectiveDuration(Self))
            THEN currentStep' = currentStep + 1 /\ elapsed' = 0
                 /\ isPlaying' /\ speed' = speed
            ELSE currentStep' = currentStep /\ elapsed' = elapsed
                 /\ isPlaying' /\ speed' = speed]_vars
    /\ [](last.op = "setSpeed" =>
            (rafQueue = last.before.rafQueue
             /\ animationFrameId = last.before.animationFrameId))

\* A tick at the slowest speed that did not advance although the base
\* duration had elapsed.
C20_Witness ==
    /\ last.op = "tick"
    /\ last.before.isPlaying
    /\ isPlaying
    /\ speed = MinSpeed
    /\ elapsed = stepDuration
    /\ currentStep = last.before.currentStep
    /\ currentStep < totalSteps - 1

\* C16: for every disk count n in 1..8 generateStates() returns exactly 2^n
\* snapshots, one initial plus getMinMoves() = 2^n - 1 moves, with moveNumber
\* running 0..2^n-1 in order, and the last snapshot describes the move of
\* disk 1 onto the target peg (peg index 2, "Peg 3").
C16_HanoiSnapshotCount ==
    hanoi.pc = "done" =>
        LET st == hanoi.states
            fin == st[Len(st)]
        IN /\ Len(st) = Pow2(hanoi.numDisks)
           /\ Len(st) = 1 + getMinMoves(hanoi)
           /\ \A k \in 1..Len(st) : st[k].moveNumber = k - 1
           /\ st[1].move = null
           /\ fin.movingDisk = 1
           /\ fin.toPeg = TargetPeg
           /\ fin.description =
                  <<"Move disk", 1, "from Peg", fin.fromPeg + 1, "to Peg", 3>>

\* The run for 3 disks has returned its 8 snapshots, and so has the one for
\* the largest disk count.
C16_Witness ==
    /\ hanoi.pc = "done"
    /\ \/ hanoi.numDisks = 3 /\ Len(hanoi.states) = 8
       \/ hanoi.numDisks = MaxDisks /\ Len(hanoi.states) = Pow2(MaxDisks)

\* C15: after search() completes for any text and pattern, an empty pattern
\* or an empty text included, the recorded sequence holds at least one
\* snapshot.
C15_KmpSequenceNonEmpty ==
    kmp.pc = "searched" => Len(kmp.states) >= 1

\* The indices at which the pattern occurs in the text, in increasing order.
OccursAt(text, pattern, i) ==
    /\ i + Len(pattern) <= Len(text)
    /\ \A k \in 1..Len(pattern) : text[i + k] = pattern[k]

RECURSIVE OccurrencesFrom(_, _, _)
OccurrencesFrom(text, pattern, i) ==
    IF i + Len(pattern) > Len(text) THEN <<>>
    ELSE (IF OccursAt(text, pattern, i) THEN <<i>> ELSE <<>>)
         \o OccurrencesFrom(text, pattern, i + 1)

\* C17: for every text and every non-empty pattern search() returns, in
\* increasing order, exactly the indices at which the pattern occurs, and the
\* final snapshot's matches list equals the returned list; the end-to-end
\* scenario yields the single index 10.
C17_KmpReportsOccurrences ==
    (kmp.pc = "searched" /\ Len(kmp.pattern) >= 1) =>
        /\ kmp.result = OccurrencesFrom(kmp.text, kmp.pattern, 0)
        /\ Len(kmp.states) >= 1
        /\ kmp.states[Len(kmp.states)].matches = kmp.result
        /\ (kmp.text = ExampleText /\ kmp.pattern = ExamplePattern) =>
               kmp.result = <<10>>

\* C14: once a snapshot has been appended by NQueens.generateStates its
\* board grid and queens list keep their content for the rest of the run, and
\* a checking snapshot of row r never shows a queen in row r.
C14_SnapshotsNeverMutated ==
    /\ [][(nq.pc = "solve" /\ nq'.pc \in {"solve", "done"}) =>
            \A k \in 1..Len(nq.states) :
                /\ nq'.states[k].board = nq.states[k].board
                /\ nq'.states[k].queens = nq.states[k].queens]_vars
    /\ [](nq.pc \in {"solve", "done"} =>
            \A k \in 1..Len(nq.states) :
                nq.states[k].kind = "check" =>
                    /\ \A c \in nq.states[k].board :
                           c[1] # nq.states[k].currentRow
                    /\ \A i \in 1..Len(nq.states[k].queens) :
                           nq.states[k].queens[i][1] # nq.states[k].currentRow)

\* No two queens of the list share a row, a column or a diagonal.
NonAttacking(queens) ==
    \A i, j \in 1..Len(queens) :
        i < j => /\ queens[i][1] # queens[j][1]
                 /\ queens[i][2] # queens[j][2]
                 /\ Abs(queens[i][1] - queens[j][1])
                        # Abs(queens[i][2] - queens[j][2])

\* C18: generateStates(true) records exactly one solution: the last snapshot
\* is the only one flagged isSolution, has solutionsFound = 1 and places N
\* mutually non-attacking queens, and nothing follows it.
C18_FindFirstStopsAtFirstSolution ==
    (nq.pc = "done" /\ nq.findFirst) =>
        LET st == nq.states
            fin == st[Len(st)]
        IN /\ fin.isSolution
           /\ \A k \in 1..Len(st) : st[k].isSolution => k = Len(st)
           /\ fin.solutionsFound = 1
           /\ nq.solutionsFound = 1
           /\ Len(fin.queens) = nq.n
           /\ NonAttacking(fin.queens)
           /\ fin.board = {fin.queens[i] : i \in 1..nq.n}
           /\ Cardinality(fin.board) = nq.n

\* The findFirst run on the 4x4 board has returned after backtracking.
C18_Witness ==
    /\ nq.pc = "done"
    /\ nq.findFirst
    /\ nq.n = 4
    /\ nq.states[Len(nq.states)].isSolution
    /\ \E k \in 1..Len(nq.states) : nq.states[k].isBacktrack

\* C23: the frame tick that moves the position from N-2 to the final index
\* N-1 also stops the loop, takes the engine out of Playing and fires
\* onComplete: no state has the loop just advanced to N-1 with the engine
\* still Playing and a frame callback pending.
C23_CompletionOnReachingFinalIndex ==
    (/\ last.op = "tick"
     /\ totalSteps >= 2
     /\ last.before.currentStep = totalSteps - 2
     /\ currentStep = totalSteps - 1)
        => /\ ~isPlaying
           /\ rafQueue = 0
           /\ Fired("complete") # {}

\* C24: at most one advancing-loop frame callback is pending at any time.
C24_SingleAdvancingLoop ==
    rafQueue <= 1

\* C25: on a loaded sequence of length N >= 1, onComplete is invoked only by
\* a frame tick that finds the position at N-1; the invocation leaves the
\* engine not Playing with the position still N-1; it happens at most once
\* after a play(); pause, stop, stepping, goToStep and setSteps never
\* invoke it.
C25_CompletionDiscipline ==
    /\ completions <= 1
    /\ (totalSteps >= 1 /\ Fired("complete") # {}) =>
           /\ last.op = "tick"
           /\ last.before.isPlaying
           /\ last.before.currentStep = last.before.totalSteps - 1
           /\ Cardinality(Fired("complete")) = 1
           /\ ~isPlaying
           /\ currentStep = totalSteps - 1
           /\ totalSteps = last.before.totalSteps

\* A tick has completed a run of a sequence of two or more snapshots while a
\* second frame callback was still queued.
C25_Witness ==
    /\ totalSteps >= 2
    /\ last.op = "tick"
    /\ Fired("complete") # {}
    /\ completions = 1
    /\ last.before.rafQueue = 2

\* C26: for every loaded sequence of length N >= 1 and every position, the
\* progress carried by a status notification is a defined number in
\* [0, 100]: 0 at position 0 of a multi-snapshot sequence, 100 at position
\* N-1, never the result of a division by zero.
C26_ProgressIsPercentage ==
    \A i \in Fired("state") :
        fired[i].totalSteps >= 1 =>
            LET num == fired[i].progress[1]
                den == fired[i].progress[2]
            IN /\ den > 0
               /\ num >= 0
               /\ num <= 100 * den
               /\ (fired[i].currentStep = 0 /\ fired[i].totalSteps >= 2)
                      => num = 0
               /\ (fired[i].currentStep = fired[i].totalSteps - 1)
                      => num = 100 * den

LegalPegs(pegs, n) ==
    /\ Len(pegs) = 3
    /\ Len(pegs[1]) + Len(pegs[2]) + Len(pegs[3]) = n
    /\ \A d \in 1..n : \E p \in 1..3 : \E i \in 1..Len(pegs[p]) : pegs[p][i] = d
    /\ \A p \in 1..3 : \A i \in 1..(Len(pegs[p]) - 1) :
           pegs[p][i] > pegs[p][i + 1]

\* The configuration after the top disk of peg from went onto peg to.
MoveTop(pegs, from, to) ==
    LET src == pegs[from + 1]
    IN [pegs EXCEPT ![from + 1] = SubSeq(src, 1, Len(src) - 1),
                    ![to + 1] = Append(@, src[Len(src)])]

AllOnTarget(pegs, n) == pegs = <<<<>>, <<>>, [i \in 1..n |-> n + 1 - i]>>

\* C27: in every snapshot of generateStates() each disk appears once and no
\* larger disk lies on a smaller one; each snapshot after the first differs
\* from its predecessor by moving the top disk of fromPeg, which is
\* movingDisk, onto toPeg; the last snapshot has all disks on peg index 2.
C27_HanoiRunIsLegal ==
    LET st == hanoi.states
        n == hanoi.numDisks
    IN hanoi.pc \in {"forEach", "done"} =>
        /\ \A k \in 1..Len(st) : LegalPegs(st[k].pegs, n)
        /\ \A k \in 2..Len(st) :
               LET prev == st[k - 1].pegs
                   src == prev[st[k].fromPeg + 1]
               IN /\ st[k].fromPeg # st[k].toPeg
                  /\ Len(src) > 0
                  /\ src[Len(src)] = st[k].movingDisk
                  /\ st[k].pegs = MoveTop(prev, st[k].fromPeg, st[k].toPeg)
        /\ hanoi.pc = "done" => AllOnTarget(st[Len(st)].pegs, n)

\* The runs for 3 and for 8 disks have returned.
C27_Witness ==
    /\ hanoi.pc = "done"
    /\ hanoi.numDisks \in {3, MaxDisks}
    /\ Len(hanoi.states) = Pow2(hanoi.numDisks)
    /\ AllOnTarget(hanoi.states[Len(hanoi.states)].pegs, hanoi.numDisks)

RECURSIVE Replay(_, _, _)
\* The configuration after moves 1..k applied in order to pegs.
Replay(pegs, moves, k) ==
    IF k = 0 THEN pegs
    ELSE PopPush(Replay(pegs, moves, k - 1), moves[k].from, moves[k].to)

\* C28: the pegsState stored with the k-th move recorded by solve() is the
\* configuration after moves 1..k applied to the initial configuration, so
\* it is legal and the last one has all disks on peg index 2.
C28_SolveRecordsPegStates ==
    LET mv == hanoi.moves
        n == hanoi.numDisks
    IN (hanoi.pc # "none" /\ mv # <<>>) =>
        /\ \A k \in 1..Len(mv) :
               /\ mv[k].pegsState = Replay(InitialPegs(n), mv, k)
               /\ LegalPegs(mv[k].pegsState, n)
        /\ AllOnTarget(mv[Len(mv)].pegsState, n)

Count(seq, v) == Cardinality({i \in 1..Len(seq) : seq[i] = v})

IsPermutation(a, b) ==
    /\ Len(a) = Len(b)
    /\ \A v \in Values : Count(a, v) = Count(b, v)

NonDecreasing(a) == \A i \in 1..(Len(a) - 1) : a[i] <= a[i + 1]

\* C30: under every pivot strategy the array of the last snapshot of
\* generateStates() is the input in non-decreasing order, every snapshot's
\* array is a permutation of the input, and the producer's input array is
\* left unmodified.
C30_QuickSortSorts ==
    qs.pc \in {"sorting", "done"} =>
        /\ \A k \in 1..Len(qs.states) :
               IsPermutation(qs.states[k].array, qs.given)
        /\ qs.array = qs.given
        /\ qs.pc = "done" =>
               LET fin == qs.states[Len(qs.states)]
               IN /\ fin.kind = "sorted"
                  /\ NonDecreasing(fin.array)
                  /\ IsPermutation(fin.array, qs.given)

\* A run with a random pivot has returned for an input of three numbers that
\* was out of order and needed a swap.
C30_Witness ==
    /\ qs.pc = "done"
    /\ qs.strategy = "random"
    /\ Len(qs.given) = 3
    /\ qs.given[1] > qs.given[3]
    /\ qs.swaps > 0
    /\ NonDecreasing(qs.states[Len(qs.states)].array)

C29_SingleRenderLoop ==
    ca.pc = "ready" =>
        /\ ca.rafQueue <= 1
        /\ (ca.op = "tick" /\ ~ca.wasRunning) => ca.rafQueue = 0

TypeOK ==
    /\ isPlaying \in BOOLEAN
    /\ isPaused \in BOOLEAN
    /\ currentStep \in 0..MaxLen
    /\ totalSteps = Len(steps)
    /\ steps \in Sequences
    /\ speed \in MinSpeed..MaxSpeed
    /\ animationFrameId \in {"null", "pending", "fired"}
    /\ elapsed \in 0..MaxDelta
    /\ rafQueue \in 0..MaxPending
    /\ (animationFrameId = "pending") => rafQueue > 0

====
